---------------------------- MODULE Spec2Model ----------------------------
(* Model of src/main.py: the Jane Street "Bug Byte" edge-weight puzzle.      *)
(*                                                                         *)
(* main() builds a CP-SAT model over one integer variable per edge, adds   *)
(* the all-different, pre-label, vertex-sum and path-disjunction            *)
(* constraints, and asks the solver to enumerate every solution; the        *)
(* SolutionPrinter callback decodes a shortest-path message per solution.  *)
(* find_paths, dedup_paths and get_max_pathlen are pure helpers of main(). *)
(*                                                                         *)
(* Vertex ids are 0-based as in the source; edge ids are 1-based here      *)
(* (edge ii of the source is edge ii+1), because TLA+ sequences are.       *)
EXTENDS Integers, Sequences, FiniteSets, TLC

VARIABLES
    pc,              \* position in the running program
    arg,             \* arguments of a helper called on its own
    ret,             \* value that helper returned
    cfg,             \* main(): graph, constraints, pre-labels, decode endpoints
    trigger_vars,    \* main(): per (vertex, path-constraint), its candidate edge lists
    reported,        \* solver: the solutions already handed to the callback
    solution_count,  \* SolutionPrinter.__solution_count
    printed          \* what the callbacks printed, in order

vars == <<pc, arg, ret, cfg, trigger_vars, reported, solution_count, printed>>

None == [none |-> TRUE]

-----------------------------------------------------------------------------
(* Sequences helpers *)

Range(s) == {s[i] : i \in 1..Len(s)}

RECURSIVE Flatten(_)
Flatten(ss) == IF ss = <<>> THEN <<>> ELSE Head(ss) \o Flatten(Tail(ss))

RECURSIVE SumSeq(_)
SumSeq(s) == IF s = <<>> THEN 0 ELSE Head(s) + SumSeq(Tail(s))

Min(S) == CHOOSE m \in S : \A n \in S : m <= n

\* the elements of a finite set of integers, ascending
RECURSIVE Ascending(_)
Ascending(S) == IF S = {} THEN <<>> ELSE <<Min(S)>> \o Ascending(S \ {Min(S)})

-----------------------------------------------------------------------------
(* igraph.Graph: nv vertices 0..nv-1 and a sequence of edges <<u, v>> *)

Vertices(g) == 0..(g.nv - 1)

Edges(g) == 1..Len(g.es)

Adjacent(g, u, v) == \E e \in Edges(g) : g.es[e] = <<u, v>> \/ g.es[e] = <<v, u>>

\* g.neighbors(v): the adjacent vertex ids, which igraph lists in ascending order
neighbors(g, v) == Ascending({u \in Vertices(g) : Adjacent(g, u, v)})

\* vertex.incident(): the ids of the edges with v as an endpoint
incident(g, v) == {e \in Edges(g) : g.es[e][1] = v \/ g.es[e][2] = v}

-----------------------------------------------------------------------------
(* find_paths *)

RECURSIVE find_paths(_, _, _, _)

\* find_paths without the "child_node_id not in path" test
FindPathsRevisiting(g, node_id, maxlen, path) ==
    LET p == Append(path, node_id)
        children == neighbors(g, node_id)
    IN  IF Len(p) = maxlen
        THEN <<p>>
        ELSE <<p>> \o Flatten([i \in 1..Len(children) |->
                                  find_paths(g, children[i], maxlen, p)])

find_paths(g, node_id, maxlen, path) ==
    LET p == Append(path, node_id)
        children == SelectSeq(neighbors(g, node_id), LAMBDA c : c \notin Range(p))
    IN  IF Len(p) = maxlen
        THEN <<p>>
        ELSE <<p>> \o Flatten([i \in 1..Len(children) |->
                                  find_paths(g, children[i], maxlen, p)])

-----------------------------------------------------------------------------
(* dedup_paths *)

\* the loop body comparing whole paths instead of vertex sets
DedupStepByPath(acc, path) ==
    IF Len(path) > 1 /\ path \notin Range(acc.rl)
    THEN [rl            |-> Append(acc.rl, path),
          path_set_list |-> Append(acc.path_set_list, Range(path))]
    ELSE acc

\* one iteration of the loop: acc = [rl, path_set_list]
DedupStep(acc, path) ==
    IF Len(path) > 1 /\ Range(path) \notin Range(acc.path_set_list)
    THEN [rl            |-> Append(acc.rl, path),
          path_set_list |-> Append(acc.path_set_list, Range(path))]
    ELSE acc

RECURSIVE DedupLoop(_, _)
DedupLoop(acc, paths) ==
    IF paths = <<>> THEN acc ELSE DedupLoop(DedupStep(acc, Head(paths)), Tail(paths))

dedup_paths(paths) == DedupLoop([rl |-> <<>>, path_set_list |-> <<>>], paths).rl

-----------------------------------------------------------------------------
(* get_max_pathlen *)

sums == <<1, 3, 6, 10, 15, 21, 28, 36>>

\* next(x for x in range(len(sums)) if sums[x] > target), x 0-based;
\* an exhausted generator makes next() raise StopIteration
RECURSIVE NextIndex(_, _)
NextIndex(target, x) ==
    IF x >= Len(sums) THEN [exc |-> "StopIteration", value |-> 0]
    ELSE IF sums[x + 1] > target THEN [exc |-> "", value |-> x]
    ELSE NextIndex(target, x + 1)

\* get_max_pathlen returning the edge count, without the "+ 1" for nodes
GetMaxPathlenEdges(target) == NextIndex(target, 0)

get_max_pathlen(target) ==
    LET n == NextIndex(target, 0)
    IN  IF n.exc = "" THEN [exc |-> "", value |-> n.value + 1] ELSE n

-----------------------------------------------------------------------------
(* The helpers, each applied to inputs drawn from bounded sets *)

MaxTarget == 60      \* get_max_pathlen: targets 1..MaxTarget
PathsNV == 4         \* find_paths: graphs on vertices 0..PathsNV-1
MaxNodes == 4        \* find_paths: maxlen in 1..MaxNodes
MaxPaths == 3        \* dedup_paths: input lists of at most MaxPaths paths

\* the sequences of k distinct elements of S
RECURSIVE InjSeqs(_, _)
InjSeqs(S, k) ==
    IF k = 0 THEN {<<>>}
    ELSE {Append(p, v) : <<p, v>> \in
             {q \in InjSeqs(S, k - 1) \X S : q[2] \notin Range(q[1])}}

PairLess(a, b) == a[1] < b[1] \/ (a[1] = b[1] /\ a[2] < b[2])

RECURSIVE SeqOfPairs(_)
SeqOfPairs(S) ==
    IF S = {} THEN <<>>
    ELSE LET m == CHOOSE a \in S : \A b \in S \ {a} : PairLess(a, b)
         IN  <<m>> \o SeqOfPairs(S \ {m})

\* every simple graph on nv vertices
AllGraphs(nv) ==
    {[nv |-> nv, es |-> SeqOfPairs(E)] :
        E \in SUBSET {<<u, v>> \in (0..(nv - 1)) \X (0..(nv - 1)) : u < v}}

DedupVertices == {0, 1, 2}

\* the simple paths over DedupVertices, as dedup_paths receives them from find_paths
DedupInputPaths == UNION {InjSeqs(DedupVertices, k) : k \in 1..Cardinality(DedupVertices)}

Idle ==
    /\ cfg = None /\ trigger_vars = None /\ reported = {}
    /\ solution_count = 0 /\ printed = None

InitMaxLen ==
    /\ pc = "get_max_pathlen" /\ arg \in 1..MaxTarget /\ ret = None /\ Idle

CallGetMaxPathlen ==
    /\ pc = "get_max_pathlen"
    /\ ret' = get_max_pathlen(arg)
    /\ pc' = IF ret'.exc = "" THEN "returned" ELSE "raised"
    /\ UNCHANGED <<arg, cfg, trigger_vars, reported, solution_count, printed>>

SpecMaxLen == InitMaxLen /\ [][CallGetMaxPathlen]_vars

InitPaths ==
    /\ pc = "find_paths"
    /\ arg \in [g : AllGraphs(PathsNV), start : 0..(PathsNV - 1), maxlen : 1..MaxNodes]
    /\ ret = None /\ Idle

CallFindPaths ==
    /\ pc = "find_paths"
    /\ ret' = find_paths(arg.g, arg.start, arg.maxlen, <<>>)
    /\ pc' = "returned"
    /\ UNCHANGED <<arg, cfg, trigger_vars, reported, solution_count, printed>>

SpecPaths == InitPaths /\ [][CallFindPaths]_vars

InitDedup ==
    /\ pc = "dedup_paths"
    /\ arg \in UNION {[1..n -> DedupInputPaths] : n \in 0..MaxPaths}
    /\ ret = None /\ Idle

CallDedupPaths ==
    /\ pc = "dedup_paths"
    /\ ret' = dedup_paths(arg)
    /\ pc' = "returned"
    /\ UNCHANGED <<arg, cfg, trigger_vars, reported, solution_count, printed>>

SpecDedup == InitDedup /\ [][CallDedupPaths]_vars

-----------------------------------------------------------------------------
(* get_path_edges *)

\* g.es.select(_between=([u], [v])): the source asserts there is exactly one
EdgeBetween(g, u, v) ==
    CHOOSE e \in Edges(g) : g.es[e] = <<u, v>> \/ g.es[e] = <<v, u>>

get_path_edges(g, path) ==
    [ii \in 1..(Len(path) - 1) |-> EdgeBetween(g, path[ii], path[ii + 1])]

-----------------------------------------------------------------------------
(* main(): the CP-SAT model *)

\* the (vertex, index into its path-constraint list) pairs
PathConstraintIds ==
    UNION {{<<v, k>> : k \in 1..Len(cfg.path_constraint[v])} : v \in Vertices(cfg.g)}

\* lines 155-162: the candidate edge lists of path-constraint pc at vertex v;
\* get_max_pathlen's StopIteration would propagate out of main()
CandidateEdgeLists(v, target) ==
    LET max_pathlen == get_max_pathlen(target)
        candidate_paths == dedup_paths(find_paths(cfg.g, v, max_pathlen.value, <<>>))
    IN  IF max_pathlen.exc # ""
        THEN [exc |-> max_pathlen.exc, value |-> <<>>]
        ELSE [exc |-> "",
              value |-> [i \in 1..Len(candidate_paths) |->
                            get_path_edges(cfg.g, candidate_paths[i])]]

\* the Boolean variables of the model: one per (vertex, path-constraint, candidate)
TriggerIds ==
    UNION {{<<id, ii>> : ii \in 1..Len(trigger_vars[id])} : id \in DOMAIN trigger_vars}

EdgeWeightSum(w, el) == SumSeq([i \in 1..Len(el) |-> w[el[i]]])

\* NewIntVar(1, 24, ...) for each of the 24 edges: the domain is 1..n_edges
InDomain(w) == w \in [Edges(cfg.g) -> 1..Len(cfg.g.es)]

\* a model built without AddAllDifferent
AllDifferentMissing(w) == TRUE

\* model.AddAllDifferent(edge_weights)
AllDifferent(w) == \A e, f \in Edges(cfg.g) : e # f => w[e] # w[f]

\* model.Add(edge_weights[e] == value) for the edges already labelled
FixedValues(w) == \A f \in cfg.fixed : w[f[1]] = f[2]

\* the sum constraints taken over the edges leaving the vertex only
SumConstraintsOutgoingOnly(w) ==
    \A v \in Vertices(cfg.g) :
        cfg.sum_constraint[v] > 0 =>
            SumSeq([i \in 1..Len(Ascending({e \in Edges(cfg.g) : cfg.g.es[e][1] = v})) |->
                       w[Ascending({e \in Edges(cfg.g) : cfg.g.es[e][1] = v})[i]]])
                = cfg.sum_constraint[v]

\* lines 134-139: model.Add(sum(incident_ews) == target) where target > 0
SumConstraints(w) ==
    \A v \in Vertices(cfg.g) :
        cfg.sum_constraint[v] > 0 =>
            EdgeWeightSum(w, Ascending(incident(cfg.g, v))) = cfg.sum_constraint[v]

\* line 168: model.Add(sum(el_weights) == pc).OnlyEnforceIf(trigger_var)
OnlyEnforceIf(w, t) ==
    \A tv \in TriggerIds :
        t[tv] => EdgeWeightSum(w, trigger_vars[tv[1]][tv[2]])
                    = cfg.path_constraint[tv[1][1]][tv[1][2]]

\* a model built without AddBoolOr
BoolOrMissing(t) == TRUE

\* line 170: model.AddBoolOr(trigger_vars[vertex.index][pc])
BoolOr(t) ==
    \A id \in DOMAIN trigger_vars : \E ii \in 1..Len(trigger_vars[id]) : t[<<id, ii>>]

\* the solutions of the model: assignments to all of its variables, the edge
\* weights w and the trigger Booleans t, that satisfy every constraint (CP-SAT
\* enumerates over every variable of the model, not over edge_weights alone)
Solutions ==
    {s \in [w : {w \in [Edges(cfg.g) -> 1..Len(cfg.g.es)] :
                    InDomain(w) /\ AllDifferent(w) /\ FixedValues(w) /\ SumConstraints(w)},
            t : [TriggerIds -> BOOLEAN]] :
        OnlyEnforceIf(s.w, s.t) /\ BoolOr(s.t)}

-----------------------------------------------------------------------------
(* SolutionPrinter.on_solution_callback *)

\* the simple paths from source to target of least total weight (the weights are
\* positive, so a shortest path is simple)
ShortestVertexPaths(g, w, source, target) ==
    LET all == {p \in Range(find_paths(g, source, g.nv, <<>>)) : p[Len(p)] = target}
        weight(p) == EdgeWeightSum(w, get_path_edges(g, p))
    IN  {p \in all : \A q \in all : weight(p) <= weight(q)}

\* g.get_shortest_paths(source, to=target, weights=..., output="epath"): a list
\* with one entry for the one target, the edge ids of a shortest path, in
\* order from the source; the entry of an unreachable target is the empty list
get_shortest_paths(g, w, source, target) ==
    IF ShortestVertexPaths(g, w, source, target) = {}
    THEN {<< <<>> >>}
    ELSE {<<get_path_edges(g, p)>> : p \in ShortestVertexPaths(g, w, source, target)}

\* chr(c) for the code points 64..91
chr(c) ==
    << "@", "A", "B", "C", "D", "E", "F", "G", "H", "I", "J", "K", "L", "M", "N",
       "O", "P", "Q", "R", "S", "T", "U", "V", "W", "X", "Y", "Z", "[" >>[c - 63]

\* the decoding loop with the offset of a 0-based alphabet
DecodeOffByOne(w, shortest_paths) ==
    IF shortest_paths # <<>>
    THEN [i \in 1..Len(shortest_paths[1]) |-> chr(w[shortest_paths[1][i]] + 65)]
    ELSE <<>>

\* lines 40-43: output_str
Decode(w, shortest_paths) ==
    IF shortest_paths # <<>>
    THEN [i \in 1..Len(shortest_paths[1]) |-> chr(w[shortest_paths[1][i]] + 64)]
    ELSE <<>>

-----------------------------------------------------------------------------
(* main() *)

MaxSumTarget == 6     \* sum-constraints 1..MaxSumTarget
MaxPathTarget == 6    \* path-constraints 1..MaxPathTarget

\* the graphs main() is run on: a triangle beside an isolated vertex, a path, a star
Graphs ==
    { [nv |-> 4, es |-> << <<0, 1>>, <<0, 2>>, <<1, 2>> >>],
      [nv |-> 4, es |-> << <<0, 1>>, <<1, 2>>, <<2, 3>> >>],
      [nv |-> 4, es |-> << <<0, 1>>, <<0, 2>>, <<0, 3>> >>] }

\* g.vs['sum-constraint']: -1 for a vertex without one; at most one vertex has one
SumConstraintLists(g) ==
    {[v \in Vertices(g) |-> -1]} \cup
    {[v \in Vertices(g) |-> IF v = u THEN t ELSE -1] :
        <<u, t>> \in Vertices(g) \X (1..MaxSumTarget)}

\* g.vs['path-constraint']: a list per vertex; at most one vertex has a non-empty
\* one, of one or two ascending targets
PathConstraintLists(g) ==
    {[v \in Vertices(g) |-> <<>>]} \cup
    {[v \in Vertices(g) |-> IF v = u THEN l ELSE <<>>] :
        <<u, l>> \in Vertices(g) \X
            ({<<t>> : t \in 1..MaxPathTarget} \cup
             {<<t1, t2>> : <<t1, t2>> \in
                 {tt \in (1..MaxPathTarget) \X (1..MaxPathTarget) : tt[1] < tt[2]}})}

\* the edges already labelled: none, or the first edge with any weight
FixedLists(g) == {{}} \cup {{<<1, val>>} : val \in 1..Len(g.es)}

Configs ==
    UNION {[g : {g},
            sum_constraint : SumConstraintLists(g),
            path_constraint : PathConstraintLists(g),
            fixed : FixedLists(g),
            source : {0},
            target : {2, 3}] : g \in Graphs}

Init ==
    /\ pc = "main"
    /\ cfg \in Configs
    /\ trigger_vars = None
    /\ reported = {}
    /\ solution_count = 0
    /\ printed = None
    /\ arg = None
    /\ ret = None

\* lines 118-170: build the model
BuildModel ==
    /\ pc = "main"
    /\ LET built == [id \in PathConstraintIds |->
                        CandidateEdgeLists(id[1], cfg.path_constraint[id[1]][id[2]])]
       IN  IF \E id \in PathConstraintIds : built[id].exc # ""
           THEN pc' = "raised" /\ trigger_vars' = trigger_vars
           ELSE pc' = "solve"
                /\ trigger_vars' = [id \in PathConstraintIds |-> built[id].value]
    /\ UNCHANGED <<arg, ret, cfg, reported, solution_count, printed>>

\* solver.Solve(model, printer) with enumerate_all_solutions: the solver hands
\* the callback a solution of the model it has not reported yet
SolutionCallback ==
    /\ pc = "solve"
    /\ \E s \in Solutions \ reported :
          /\ reported' = reported \cup {s}
          /\ solution_count' = solution_count + 1
          /\ \E shortest_paths \in
                 get_shortest_paths(cfg.g, s.w, cfg.source, cfg.target) :
                \* lines 39 and 45 always print; nothing is raised
                printed' = [weights     |-> s.w,
                            found       |-> Len(shortest_paths),
                            decoded_msg |-> TRUE,
                            output_str  |-> Decode(s.w, shortest_paths),
                            raised      |-> ""]
    /\ UNCHANGED <<pc, arg, ret, cfg, trigger_vars>>

\* Solve returns once every solution has been reported; main prints the count
SolveReturns ==
    /\ pc = "solve"
    /\ Solutions \ reported = {}
    /\ pc' = "done"
    /\ UNCHANGED <<arg, ret, cfg, trigger_vars, reported, solution_count, printed>>

Next == BuildModel \/ SolutionCallback \/ SolveReturns

Spec == Init /\ [][Next]_vars

-----------------------------------------------------------------------------
(* Claims about the helpers *)

\* triangular(k) = k(k+1)/2
triangular(k) == (k * (k + 1)) \div 2

\* C7 as stated: for every positive target, get_max_pathlen(target) returns n
\* with triangular(n-1) <= target < triangular(n).
C7_MaxPathlenBracketsTarget ==
    pc \in {"returned", "raised"} =>
        /\ ret.exc = ""
        /\ triangular(ret.value - 1) <= arg
        /\ arg < triangular(ret.value)

\* C7 amended: the same, for every positive target below the last entry of the
\* sums table (36).
C7_MaxPathlenBracketsTargetInTable ==
    (pc \in {"returned", "raised"} /\ arg < sums[Len(sums)]) =>
        /\ ret.exc = ""
        /\ triangular(ret.value - 1) <= arg
        /\ arg < triangular(ret.value)

C7_Witness == pc = "returned" /\ arg = 35 /\ ret.value = 8

\* the simple paths of g that begin at start and have 1..maxlen vertices
SimplePathsFrom(g, start, maxlen) ==
    {p \in UNION {InjSeqs(Vertices(g), k) : k \in 1..maxlen} :
        /\ p[1] = start
        /\ \A i \in 1..(Len(p) - 1) : Adjacent(g, p[i], p[i + 1])}

\* C5: find_paths(graph, start, maxNodes), maxNodes >= 1, returns exactly the
\* simple paths that begin at start and have between 1 and maxNodes vertices,
\* each of them once.
C5_FindPathsExact ==
    pc = "returned" =>
        /\ Range(ret) = SimplePathsFrom(arg.g, arg.start, arg.maxlen)
        /\ Cardinality(Range(ret)) = Len(ret)

\* a cyclic graph where the bound cut a path that could have been extended
C5_Witness ==
    /\ pc = "returned"
    /\ arg.maxlen = 3
    /\ <<arg.start>> \in Range(ret)
    /\ \E p \in Range(ret) :
          /\ Len(p) = 3
          /\ Adjacent(arg.g, p[3], p[1])
          /\ \E v \in Vertices(arg.g) : v \notin Range(p) /\ Adjacent(arg.g, p[3], v)

RECURSIVE IsSubseq(_, _)
IsSubseq(a, b) ==
    IF a = <<>> THEN TRUE
    ELSE IF b = <<>> THEN FALSE
    ELSE IF Head(a) = Head(b) THEN IsSubseq(Tail(a), Tail(b))
    ELSE IsSubseq(a, Tail(b))

\* C6: dedup_paths returns a sub-sequence of its input with no two paths of the
\* same vertex set and no single-vertex path, and for each vertex set of an input
\* path with at least 2 vertices it keeps the first input path with that set.
C6_DedupKeepsFirstPerVertexSet ==
    pc = "returned" =>
        /\ IsSubseq(ret, arg)
        /\ \A i, j \in 1..Len(ret) : i # j => Range(ret[i]) # Range(ret[j])
        /\ \A i \in 1..Len(ret) : Len(ret[i]) >= 2
        /\ \A j \in 1..Len(arg) :
              Len(arg[j]) >= 2 =>
                  LET first == Min({k \in 1..Len(arg) : Range(arg[k]) = Range(arg[j])})
                  IN  \E i \in 1..Len(ret) : ret[i] = arg[first]

\* two different paths over one vertex set and a single-vertex path went in,
\* one path came out
C6_Witness ==
    /\ pc = "returned"
    /\ Len(ret) = 1
    /\ \E k \in 1..Len(arg) : Len(arg[k]) = 1
    /\ \E i, j \in 1..Len(arg) :
          i < j /\ arg[i] # arg[j] /\ Range(arg[i]) = Range(arg[j]) /\ ret[1] = arg[i]

-----------------------------------------------------------------------------
(* Claims about main() and the callback *)

\* the edge-weight assignments handed to the callback so far
Emitted == {s.w : s \in reported}

RECURSIVE SumOver(_, _)
SumOver(w, S) ==
    IF S = {} THEN 0
    ELSE LET e == CHOOSE x \in S : TRUE IN w[e] + SumOver(w, S \ {e})

\* the edges touching v
Touching(g, v) == {e \in Edges(g) : v \in {g.es[e][1], g.es[e][2]}}

\* total weight of a vertex path
PathWeight(g, w, p) ==
    SumOver(w, {e \in Edges(g) :
                   \E i \in 1..(Len(p) - 1) : {g.es[e][1], g.es[e][2]} = {p[i], p[i + 1]}})

Bijections(g) ==
    {w \in [Edges(g) -> 1..Len(g.es)] : {w[e] : e \in Edges(g)} = 1..Len(g.es)}

MeetsSumTargets(w) ==
    \A v \in Vertices(cfg.g) :
        cfg.sum_constraint[v] # -1 => SumOver(w, Touching(cfg.g, v)) = cfg.sum_constraint[v]

\* the assignments the puzzle calls valid
ValidAssignments ==
    {w \in Bijections(cfg.g) :
        /\ \A f \in cfg.fixed : w[f[1]] = f[2]
        /\ MeetsSumTargets(w)
        /\ \A v \in Vertices(cfg.g) :
              \A k \in 1..Len(cfg.path_constraint[v]) :
                  \E p \in SimplePathsFrom(cfg.g, v, cfg.g.nv) :
                      Len(p) >= 2 /\ PathWeight(cfg.g, w, p) = cfg.path_constraint[v][k]}

\* C1: every valid assignment (a bijection onto 1..E that agrees with the fixed
\* values, meets every sum-target and has, for every path-target t at v, a simple
\* path from v of weight t) is emitted by the time the solver returns.
C1_EveryValidAssignmentEmitted ==
    pc = "done" => ValidAssignments \subseteq Emitted

\* C2: the weights of every emitted solution are exactly 1..E, each used once.
C2_WeightsAreBijection ==
    \A w \in Emitted :
        /\ DOMAIN w = Edges(cfg.g)
        /\ {w[e] : e \in Edges(cfg.g)} = 1..Len(cfg.g.es)
        /\ \A e, f \in Edges(cfg.g) : w[e] = w[f] => e = f

C2_Witness == pc = "done" /\ Cardinality(Emitted) = 6 /\ printed.weights \in Emitted

\* C3: in every emitted solution the weights on the edges incident to a vertex
\* with a sum-target add up to the target; and a vertex without one (-1) imposes
\* nothing: an assignment that meets the sum-targets of the other vertices and
\* the remaining constraints is emitted by the time the solver returns.
C3_SumTargetsMet ==
    /\ \A w \in Emitted : MeetsSumTargets(w)
    /\ pc = "done" =>
          \A w \in Bijections(cfg.g) :
              ( /\ MeetsSumTargets(w)
                /\ FixedValues(w)
                /\ \E t \in [TriggerIds -> BOOLEAN] : OnlyEnforceIf(w, t) /\ BoolOr(t) )
              => w \in Emitted

\* the star's centre has a sum-target, its leaves have none, and solutions came out
C3_Witness ==
    /\ pc = "done"
    /\ cfg.sum_constraint[0] = 6
    /\ cfg.sum_constraint[1] = -1
    /\ cfg.g.es[3] = <<0, 3>>
    /\ Cardinality(Emitted) = 6

\* C4: in every emitted solution, for every path-target t listed at a vertex v,
\* one of the paths find_paths produces from v (before deduplication) has
\* edge-weight sum exactly t.
C4_PathTargetsMet ==
    \A w \in Emitted :
        \A v \in Vertices(cfg.g) :
            \A k \in 1..Len(cfg.path_constraint[v]) :
                LET t == cfg.path_constraint[v][k]
                IN  \E p \in Range(find_paths(cfg.g, v, get_max_pathlen(t).value, <<>>)) :
                        Len(p) >= 2 /\ PathWeight(cfg.g, w, p) = t

\* two path-targets at one vertex of the triangle, met by different paths
C4_Witness ==
    /\ printed # None
    /\ cfg.g.es[3] = <<1, 2>>
    /\ cfg.path_constraint[0] = <<3, 5>>
    /\ printed.weights = <<3, 1, 2>>

\* the vertices reachable from the vertices of S
RECURSIVE ReachableFrom(_, _)
ReachableFrom(g, S) ==
    LET T == S \cup {v \in Vertices(g) : \E u \in S : Adjacent(g, u, v)}
    IN  IF T = S THEN S ELSE ReachableFrom(g, T)

Connected(g, source, target) == target \in ReachableFrom(g, {source})

\* C8: when source and target are disconnected, decoding fails with NoPath: no
\* decoded message is produced for the solution and the failure is surfaced.
C8_NoPathSurfaced ==
    (printed # None /\ ~Connected(cfg.g, cfg.source, cfg.target)) =>
        printed.raised = "NoPath" /\ ~printed.decoded_msg

Alphabet ==
    << "A", "B", "C", "D", "E", "F", "G", "H", "I", "J", "K", "L", "M",
       "N", "O", "P", "Q", "R", "S", "T", "U", "V", "W", "X", "Y", "Z" >>

Infinity(g) == Len(g.es) * Len(g.es) + 1

\* Bellman-Ford: least weight of a walk of at most k edges from source
RECURSIVE Distance(_, _, _, _)
Distance(g, w, source, k) ==
    IF k = 0 THEN [v \in Vertices(g) |-> IF v = source THEN 0 ELSE Infinity(g)]
    ELSE LET d == Distance(g, w, source, k - 1)
         IN  [v \in Vertices(g) |->
                 Min({d[v]} \cup {d[u] + w[e] : <<u, e>> \in
                        {x \in Vertices(g) \X Edges(g) :
                            {g.es[x[2]][1], g.es[x[2]][2]} = {x[1], v} /\ x[1] # v}})]

\* C9: when target is reachable from source, the decoded message has one symbol
\* per edge of a minimum-total-weight path from source to target, in path order
\* from the source, the symbol of weight w being the w-th letter of the alphabet.
C9_MessageSpellsShortestPath ==
    (printed # None /\ Connected(cfg.g, cfg.source, cfg.target)) =>
        \E p \in SimplePathsFrom(cfg.g, cfg.source, cfg.g.nv) :
            /\ p[Len(p)] = cfg.target
            /\ PathWeight(cfg.g, printed.weights, p)
                 = Distance(cfg.g, printed.weights, cfg.source, cfg.g.nv - 1)[cfg.target]
            /\ Len(printed.output_str) = Len(p) - 1
            /\ \A i \in 1..(Len(p) - 1) :
                  \E e \in Edges(cfg.g) :
                      /\ {cfg.g.es[e][1], cfg.g.es[e][2]} = {p[i], p[i + 1]}
                      /\ printed.output_str[i] = Alphabet[printed.weights[e]]

\* the three-edge path graph, decoded end to end
C9_Witness ==
    /\ printed # None
    /\ cfg.target = 3
    /\ printed.weights = <<3, 1, 2>>
    /\ printed.output_str = <<"C", "A", "B">>

\* C10: no edge-weight assignment is emitted more than once, so the reported
\* solution count is the number of distinct assignments emitted.
C10_EachAssignmentEmittedOnce ==
    /\ \A s1, s2 \in reported : s1.w = s2.w => s1 = s2
    /\ solution_count = Cardinality(Emitted)

=============================================================================
